---- MODULE Spec2Model ----
(***************************************************************************)
(* Model of the chunking engine of mcp-pinecone                            *)
(* (src/src/mcp_pinecone/chunking.py): ChunkingConfig and its validation,  *)
(* SmartChunker.chunk_document, create_chunk, _split_with_overlap and      *)
(* _split_by_tokens.                                                       *)
(*                                                                         *)
(* Text is a sequence of one-character strings over a two-letter alphabet: *)
(* a decimal digit and the newline.  On that alphabet the tokenizer the    *)
(* chunker loads (tiktoken, cl100k_base) is decided by its pre-tokenizer   *)
(* pattern alone: a run of digits is cut left to right into groups of at   *)
(* most three digits (\p{N}{1,3}), a run of newlines is one group          *)
(* (\s*[\r\n]+), and each such group is one token of the vocabulary.       *)
(* Encode below is that function; Decode is concatenation.                 *)
(***************************************************************************)
EXTENDS Integers, Sequences, FiniteSets, TLC

VARIABLES config, config_error, pc, call, result, frames, locals, tool, heap

vars == <<config, config_error, pc, call, result, frames, locals, tool, heap>>

(***************************************************************************)
(* Bounds of the model.                                                    *)
(***************************************************************************)
\* Longest content, in characters.
MaxLen == 6
\* Largest target_tokens / max_tokens / overlap_tokens passed to ChunkingConfig.
MaxTokens == 3

(***************************************************************************)
(* Program constants: the defaults of ChunkingConfig.                      *)
(***************************************************************************)
DefaultTargetTokens == 512
DefaultMaxTokens == 1000
DefaultOverlapTokens == 50
\* \p{N}{1,3} of the cl100k_base pattern: digits are grouped by three.
DigitGroup == 3

Digit == "7"
Newline == "\n"
Alphabet == {Digit, Newline}
Digits == {"0", "1", "2", "3", "4", "5", "6", "7", "8", "9"}
Newlines == {"\n", "\r"}
\* what str.strip() removes: the characters for which str.isspace() is true.
\* A character that has no escape in a TLA+ string is written by its code
\* point, "U+000B" for the vertical tab.
Whitespace ==
    {"\t", "\n", "U+000B", "\f", "\r", "U+001C", "U+001D", "U+001E", "U+001F",
     " ", "U+0085", "U+00A0", "U+1680", "U+2000", "U+2001", "U+2002",
     "U+2003", "U+2004", "U+2005", "U+2006", "U+2007", "U+2008", "U+2009",
     "U+200A", "U+2028", "U+2029", "U+202F", "U+205F", "U+3000"}

\* "\n\n", "\n", ". ", "? ", "! ", ", ", " ", ""
DefaultSeparators ==
    << <<"\n", "\n">>, <<"\n">>, <<".", " ">>, <<"?", " ">>, <<"!", " ">>,
       <<",", " ">>, <<" ">>, <<>> >>

Min(a, b) == IF a <= b THEN a ELSE b

(***************************************************************************)
(* Strings as sequences of characters.                                     *)
(***************************************************************************)
RECURSIVE Concat(_)
Concat(ss) == IF ss = <<>> THEN <<>> ELSE Head(ss) \o Concat(Tail(ss))

\* separator.join(pieces)
RECURSIVE Join(_, _)
Join(pieces, separator) ==
    IF pieces = <<>> THEN <<>>
    ELSE IF Len(pieces) = 1 THEN pieces[1]
    ELSE pieces[1] \o separator \o Join(Tail(pieces), separator)

\* text.split(separator) for a non-empty separator: leftmost, non-overlapping
\* occurrences; the pieces of text from position i on, one piece up to each
\* next occurrence and one after the last.
RECURSIVE SplitFrom(_, _, _)
SplitFrom(text, separator, i) ==
    LET at == {j \in i..(Len(text) - Len(separator) + 1) :
                 SubSeq(text, j, j + Len(separator) - 1) = separator}
        next == CHOOSE j \in at : \A k \in at : j <= k
    IN  IF at = {} THEN <<SubSeq(text, i, Len(text))>>
        ELSE <<SubSeq(text, i, next - 1)>>
               \o SplitFrom(text, separator, next + Len(separator))

Split(text, separator) == SplitFrom(text, separator, 1)

\* text.strip()
RECURSIVE LStrip(_)
LStrip(text) ==
    IF text # <<>> /\ Head(text) \in Whitespace THEN LStrip(Tail(text)) ELSE text

RECURSIVE RStrip(_)
RStrip(text) ==
    IF text # <<>> /\ text[Len(text)] \in Whitespace
    THEN RStrip(SubSeq(text, 1, Len(text) - 1))
    ELSE text

Strip(text) == RStrip(LStrip(text))

(***************************************************************************)
(* The tokenizer: self.tokenizer = tiktoken.get_encoding("cl100k_base").   *)
(***************************************************************************)
\* length of the maximal run of characters of S that ends just before text[i]
RECURSIVE RunBefore(_, _, _)
RunBefore(text, i, S) ==
    IF i <= 1 \/ text[i - 1] \notin S THEN 0 ELSE 1 + RunBefore(text, i - 1, S)

\* a token begins at text[i]: digits go in groups of DigitGroup from the
\* start of their run, a run of newlines is one token, any other character
\* is a token of its own
TokenStart(text, i) ==
    IF text[i] \in Digits THEN RunBefore(text, i, Digits) % DigitGroup = 0
    ELSE IF text[i] \in Newlines THEN RunBefore(text, i, Newlines) = 0
    ELSE TRUE

\* the positions where the tokens of text begin, in order
TokenStarts(text) ==
    SelectSeq([i \in 1..Len(text) |-> i], LAMBDA i : TokenStart(text, i))

\* the token that begins at the k-th start
TokenAt(text, starts, k) ==
    SubSeq(text, starts[k],
           IF k = Len(starts) THEN Len(text) ELSE starts[k + 1] - 1)

\* tokenizer.encode(text): the token sequence, each token shown as its text
Encode(text) ==
    LET starts == TokenStarts(text)
    IN  [k \in 1..Len(starts) |-> TokenAt(text, starts, k)]

\* tokenizer.decode(tokens)
Decode(tokens) == Concat(tokens)

\* count_tokens
CountTokens(text) == Len(Encode(text))

(***************************************************************************)
(* _split_by_tokens: windows of target_tokens tokens, one every            *)
(* target_tokens - overlap_tokens tokens.                                  *)
(***************************************************************************)
\* range(i, n, step) that yields i also when i = n: one start too many when
\* the stride divides n
RECURSIVE RangeFromInclusive(_, _, _)
RangeFromInclusive(i, n, step) ==
    IF step <= 0 \/ i > n THEN <<>>
    ELSE <<i>> \o RangeFromInclusive(i + step, n, step)

\* range(i, n, step) for 0 <= i: a negative step gives the empty range (a
\* step of 0 raises, see RangeRaises)
RECURSIVE RangeFrom(_, _, _)
RangeFrom(i, n, step) ==
    IF step <= 0 \/ i >= n THEN <<>> ELSE <<i>> \o RangeFrom(i + step, n, step)

\* range(0, n, 0) raises ValueError("range() arg 3 must not be zero")
RangeRaises(target_tokens, overlap_tokens) == target_tokens - overlap_tokens = 0

\* tokens[i : i + target_tokens], i counted from 0
TokenSlice(tokens, i, target_tokens) ==
    SubSeq(tokens, i + 1, Min(i + target_tokens, Len(tokens)))

\* the windows taken every target_tokens tokens: the overlap is forgotten
TokenWindowsNoOverlap(text, target_tokens, overlap_tokens) ==
    LET tokens == Encode(text)
        starts == RangeFrom(0, Len(tokens), target_tokens)
    IN  [k \in 1..Len(starts) |->
            [start |-> starts[k],
             tokens |-> TokenSlice(tokens, starts[k], target_tokens)]]

\* The windows, each with the offset it starts at.
TokenWindows(text, target_tokens, overlap_tokens) ==
    LET tokens == Encode(text)
        starts == RangeFrom(0, Len(tokens), target_tokens - overlap_tokens)
    IN  [k \in 1..Len(starts) |->
            [start |-> starts[k],
             tokens |-> TokenSlice(tokens, starts[k], target_tokens)]]

SplitByTokens(text, target_tokens, overlap_tokens) ==
    LET windows == TokenWindows(text, target_tokens, overlap_tokens)
    IN  [k \in 1..Len(windows) |-> Decode(windows[k].tokens)]

(***************************************************************************)
(* _split_with_overlap.  The packing pass keeps                            *)
(*   chunks          the chunks closed so far, each as its pieces and the  *)
(*                   number of leading pieces that were seeded as overlap, *)
(*   current_chunk   the pieces of the chunk being filled,                 *)
(*   seeded          how many of them were seeded as overlap,              *)
(*   current_tokens  the running token count.                              *)
(***************************************************************************)
\* lines 242-247: walk prev_splits backward while the overlap budget lasts
RECURSIVE OverlapWalk(_, _, _, _)
OverlapWalk(prev_splits, k, overlap_tokens_remaining, current_chunk) ==
    IF k = 0 THEN current_chunk
    ELSE LET prev_tokens == CountTokens(prev_splits[k])
         IN  IF overlap_tokens_remaining - prev_tokens < 0 THEN current_chunk
             ELSE OverlapWalk(prev_splits, k - 1,
                              overlap_tokens_remaining - prev_tokens,
                              <<prev_splits[k]>> \o current_chunk)

\* the count_tokens calls of that walk (line 243): one per piece visited,
\* the piece that exhausts the budget included
RECURSIVE OverlapWalkCalls(_, _, _)
OverlapWalkCalls(prev_splits, k, overlap_tokens_remaining) ==
    IF k = 0 THEN 0
    ELSE LET prev_tokens == CountTokens(prev_splits[k])
         IN  IF overlap_tokens_remaining - prev_tokens < 0 THEN 1
             ELSE 1 + OverlapWalkCalls(prev_splits, k - 1,
                                       overlap_tokens_remaining - prev_tokens)

\* the closing test with >= for >: a chunk is closed when the next piece
\* would fill it to the target exactly
ShouldCloseAtTarget(current_tokens, split_tokens, target_tokens, current_chunk) ==
    current_tokens + split_tokens >= target_tokens /\ current_chunk # <<>>

\* the closing test that looks at the next piece only: a chunk that is over
\* the target already is not closed before a small piece
ShouldCloseBySplit(current_tokens, split_tokens, target_tokens, current_chunk) ==
    split_tokens > target_tokens /\ current_chunk # <<>>

\* the closing test without its "and current_chunk" guard
ShouldCloseUnguarded(current_tokens, split_tokens, target_tokens, current_chunk) ==
    current_tokens + split_tokens > target_tokens

\* line 231: the test that closes the current chunk
ShouldClose(current_tokens, split_tokens, target_tokens, current_chunk) ==
    current_tokens + split_tokens > target_tokens /\ current_chunk # <<>>

\* lines 236-241: current_chunk is cleared first, prev_splits is a copy of
\* the cleared list
PrevSplits(current_chunk) ==
    LET cleared == <<>>
    IN  cleared

\* the loop body with line 251 moved into the else branch: the piece that
\* closes a chunk is not appended to the next one
PackStepDropping(p, split, separator, target_tokens, overlap_tokens) ==
    LET split_tokens == CountTokens(split)
    IN  IF ShouldClose(p.current_tokens, split_tokens, target_tokens, p.current_chunk)
        THEN [chunks |-> Append(p.chunks, [pieces |-> p.current_chunk,
                                           seeded |-> p.seeded]),
              current_chunk |-> <<>>,
              seeded |-> 0,
              current_tokens |-> 0,
              calls |-> p.calls + 2]
        ELSE [p EXCEPT !.current_chunk = Append(@, split),
                       !.current_tokens = @ + split_tokens,
                       !.calls = @ + 1]

\* lines 227-252, one iteration of the loop over splits
PackStep(p, split, separator, target_tokens, overlap_tokens) ==
    LET split_tokens == CountTokens(split)
    IN  IF ShouldClose(p.current_tokens, split_tokens, target_tokens, p.current_chunk)
        THEN LET prev_splits == PrevSplits(p.current_chunk)
                 seed == OverlapWalk(prev_splits, Len(prev_splits), overlap_tokens, <<>>)
             IN  [chunks |-> Append(p.chunks, [pieces |-> p.current_chunk,
                                               seeded |-> p.seeded]),
                  current_chunk |-> Append(seed, split),
                  seeded |-> Len(seed),
                  current_tokens |-> CountTokens(Join(seed, separator)) + split_tokens,
                  \* lines 228, 243 and 249
                  calls |-> p.calls + 1
                            + OverlapWalkCalls(prev_splits, Len(prev_splits),
                                               overlap_tokens)
                            + 1]
        ELSE [p EXCEPT !.current_chunk = Append(@, split),
                       !.current_tokens = @ + split_tokens,
                       !.calls = @ + 1]

RECURSIVE PackFrom(_, _, _, _, _, _)
PackFrom(p, splits, k, separator, target_tokens, overlap_tokens) ==
    IF k > Len(splits) THEN p
    \* q is the state after the k-th split; binding it with \in evaluates it once
    ELSE CHOOSE r \in {PackFrom(q, splits, k + 1, separator, target_tokens,
                                overlap_tokens) :
                          q \in {PackStep(p, splits[k], separator, target_tokens,
                                          overlap_tokens)}} : TRUE

\* lines 223-225: chunks = [], current_chunk = [], current_tokens = 0
PackInit ==
    [chunks |-> <<>>, current_chunk |-> <<>>, seeded |-> 0,
     current_tokens |-> 0, calls |-> 0]

\* lines 223-252: the state of the packing pass after the last split; calls
\* counts the count_tokens calls made
PackState(splits, separator, target_tokens, overlap_tokens) ==
    PackFrom(PackInit, splits, 1, separator, target_tokens, overlap_tokens)

\* lines 254-256: the final chunk is added when current_chunk is not empty
Packed(p) ==
    IF p.current_chunk # <<>>
    THEN Append(p.chunks, [pieces |-> p.current_chunk, seeded |-> p.seeded])
    ELSE p.chunks

\* lines 223-256: the chunks of one split, as pieces
Pack(splits, separator, target_tokens, overlap_tokens) ==
    Packed(PackState(splits, separator, target_tokens, overlap_tokens))

\* lines 233 and 256: each chunk is separator.join of its pieces
JoinAll(parts, separator) ==
    [j \in 1..Len(parts) |-> Join(parts[j].pieces, separator)]

\* What one call of _split_with_overlap did: the strings it returned (or the
\* exception it raised) and how it got them; tried is the number of separators
\* it evaluated text.split for, calls the number of tokenizer calls it made.
SplitResult(status, path, chunks, tried, separator, splits, parts, windows, calls) ==
    [status |-> status, path |-> path, chunks |-> chunks, tried |-> tried,
     separator |-> separator, splits |-> splits, parts |-> parts,
     windows |-> windows, calls |-> calls]

\* the separator loop that goes on to the next separator whenever that one
\* splits the text too: the finest usable separator is used, not the first
RECURSIVE TrySeparatorsFinest(_, _, _, _, _)
TrySeparatorsFinest(text, separators, k, target_tokens, overlap_tokens) ==
    IF k > Len(separators)
    THEN SplitResult("ok", "fallback",
                     SplitByTokens(text, target_tokens, overlap_tokens),
                     Len(separators), <<>>, <<>>, <<>>,
                     TokenWindows(text, target_tokens, overlap_tokens), 2)
    ELSE LET separator == separators[k]
             next_splits ==
                 /\ k < Len(separators)
                 /\ separators[k + 1] # <<>>
                 /\ Len(Split(text, separators[k + 1])) > 1
         IN  IF separator = <<>>
             THEN SplitResult("ValueError", "separator", <<>>, k, separator,
                              <<>>, <<>>, <<>>, 1)
             ELSE IF Len(Split(text, separator)) = 1 \/ next_splits
             THEN TrySeparatorsFinest(text, separators, k + 1,
                                      target_tokens, overlap_tokens)
             ELSE CHOOSE r \in
                    {SplitResult("ok", "separator", JoinAll(Packed(p), separator),
                                 k, separator, Split(text, separator), Packed(p),
                                 <<>>, 1 + p.calls) :
                       p \in {PackState(Split(text, separator), separator,
                                        target_tokens, overlap_tokens)}} : TRUE

\* lines 215-263: the separators from the k-th on, then the fallback
RECURSIVE TrySeparators(_, _, _, _, _)
TrySeparators(text, separators, k, target_tokens, overlap_tokens) ==
    IF k > Len(separators)
    THEN IF RangeRaises(target_tokens, overlap_tokens)
         THEN SplitResult("ValueError", "fallback", <<>>, Len(separators),
                          <<>>, <<>>, <<>>, <<>>, 2)
         ELSE SplitResult("ok", "fallback",
                          SplitByTokens(text, target_tokens, overlap_tokens),
                          Len(separators), <<>>, <<>>, <<>>,
                          TokenWindows(text, target_tokens, overlap_tokens),
                          \* line 210 and the encode of line 273
                          2)
    ELSE LET separator == separators[k]
         IN  IF separator = <<>>
             \* str.split("") raises ValueError("empty separator")
             THEN SplitResult("ValueError", "separator", <<>>, k, separator,
                              <<>>, <<>>, <<>>, 1)
             \* splits and the packing state are bound with \in, which
             \* evaluates each once
             ELSE CHOOSE r \in
                    {IF Len(splits) = 1
                     THEN TrySeparators(text, separators, k + 1,
                                        target_tokens, overlap_tokens)
                     ELSE CHOOSE r2 \in
                            {IF Packed(p) = <<>>
                             THEN TrySeparators(text, separators, k + 1,
                                                target_tokens, overlap_tokens)
                             ELSE SplitResult("ok", "separator",
                                              JoinAll(Packed(p), separator),
                                              k, separator, splits, Packed(p),
                                              <<>>, 1 + p.calls) :
                               p \in {PackState(splits, separator, target_tokens,
                                                overlap_tokens)}} : TRUE :
                       splits \in {Split(text, separator)}} : TRUE

SplitWithOverlap(text, separators, target_tokens, overlap_tokens) ==
    IF CountTokens(text) <= target_tokens
    THEN SplitResult("ok", "base", <<text>>, 0, <<>>, <<>>, <<>>, <<>>, 1)
    ELSE TrySeparators(text, separators, 1, target_tokens, overlap_tokens)

(***************************************************************************)
(* ChunkingConfig: the field constraints (gt=0, gt=0, ge=0) and the        *)
(* model validator validate_tokens.                                        *)
(***************************************************************************)
FieldsOk(target_tokens, max_tokens, overlap_tokens) ==
    target_tokens > 0 /\ max_tokens > 0 /\ overlap_tokens >= 0

\* validate_tokens without its overlap test
ValidateTokensNoOverlapTest(target_tokens, max_tokens, overlap_tokens) ==
    IF max_tokens < target_tokens
    THEN "max_tokens must be greater than or equal to target_tokens"
    ELSE ""

\* validate_tokens with > for >=: overlap_tokens = target_tokens slips through
ValidateTokensLax(target_tokens, max_tokens, overlap_tokens) ==
    IF overlap_tokens > target_tokens
    THEN "overlap_tokens must be less than target_tokens"
    ELSE IF max_tokens < target_tokens
    THEN "max_tokens must be greater than or equal to target_tokens"
    ELSE ""

\* validate_tokens: the message of the ValueError it raises, or "" when it
\* returns self
ValidateTokens(target_tokens, max_tokens, overlap_tokens) ==
    IF overlap_tokens >= target_tokens
    THEN "overlap_tokens must be less than target_tokens"
    ELSE IF max_tokens < target_tokens
    THEN "max_tokens must be greater than or equal to target_tokens"
    ELSE ""

\* ChunkingConfig(...): "" when the object is constructed, else the error
ConfigError(target_tokens, max_tokens, overlap_tokens) ==
    IF ~FieldsOk(target_tokens, max_tokens, overlap_tokens)
    THEN "field constraint violated"
    ELSE ValidateTokens(target_tokens, max_tokens, overlap_tokens)

ChunkingConfig(target_tokens, max_tokens, overlap_tokens, separators) ==
    [target_tokens |-> target_tokens, max_tokens |-> max_tokens,
     overlap_tokens |-> overlap_tokens, separators |-> separators]

DefaultConfig ==
    ChunkingConfig(DefaultTargetTokens, DefaultMaxTokens, DefaultOverlapTokens,
                   DefaultSeparators)

(***************************************************************************)
(* create_chunk and chunk_document.                                        *)
(***************************************************************************)
\* {"document_id": ..., ..., "chunk_type": "smart", **base_metadata}: a key of
\* base_metadata comes last in the literal and replaces the computed entry.
MergeMetadata(computed, base_metadata) == base_metadata @@ computed

CreateChunk(document_id, content, chunk_number, total_chunks, base_metadata) ==
    LET token_count == CountTokens(content)
        computed == [document_id |-> document_id,
                     chunk_number |-> chunk_number,
                     total_chunks |-> total_chunks,
                     token_count |-> token_count,
                     char_count |-> Len(content),
                     chunk_type |-> "smart"]
    IN  [id |-> document_id \o "#chunk" \o ToString(chunk_number),
         content |-> Strip(content),
         metadata |-> MergeMetadata(computed, base_metadata)]

\* the blank test without its "or not content.strip()" half
IsBlankEmptyOnly(content) == content = <<>>

\* not content or not content.strip()
IsBlank(content) == content = <<>> \/ Strip(content) = <<>>

\* a chunk_document that lost the test of line 154
MissingIdNever(document_id) == FALSE

\* not document_id
MissingId(document_id) == document_id = ""

Failure(message, split, calls) ==
    [status |-> "ChunkingError", message |-> message, chunks |-> <<>>,
     split |-> split, calls |-> calls]

NoSplit == SplitResult("none", "none", <<>>, 0, <<>>, <<>>, <<>>, <<>>, 0)

\* what the Token Counter raises when it fails
TokenCounterError == "TokenCounterError"

\* the handler that lets the error through as it is
OnExceptionRaw(document_id, cause, processed_chunks, split, calls) ==
    [status |-> cause, message |-> cause, chunks |-> <<>>, split |-> split,
     calls |-> calls]

\* the handler that returns what was built so far instead of raising
OnExceptionPartial(document_id, cause, processed_chunks, split, calls) ==
    [status |-> "ok", message |-> "", chunks |-> processed_chunks,
     split |-> split, calls |-> calls]

\* lines 187-188: except Exception as e: raise ChunkingError(f"Error chunking
\* document {document_id}: {e}"); processed_chunks, the list built so far, is
\* dropped with the frame
OnException(document_id, cause, processed_chunks, split, calls) ==
    Failure("Error chunking document " \o document_id \o ": " \o cause,
            split, calls)

\* lines 166-175: the first n Chunk objects
Built(document_id, chunks, metadata, n) ==
    [i \in 1..n |-> CreateChunk(document_id, chunks[i], i, Len(chunks), metadata)]

\* lines 156-188, from the return of _split_with_overlap on; split is what
\* the splitter did with a Token Counter that does not fail
Assemble(document_id, metadata, fail_at, split) ==
    IF fail_at \in 1..split.calls
    \* a count_tokens or encode call of the splitter raises
    THEN OnException(document_id, TokenCounterError, <<>>,
                     [split EXCEPT !.status = TokenCounterError,
                                   !.chunks = <<>>,
                                   !.calls = fail_at],
                     fail_at)
    ELSE IF split.status # "ok"
    THEN OnException(document_id, split.status, <<>>, split, split.calls)
    ELSE IF fail_at \in (split.calls + 1)..(split.calls + Len(split.chunks))
    \* the count_tokens call of a create_chunk raises (line 126)
    THEN OnException(document_id, TokenCounterError,
                     Built(document_id, split.chunks, metadata,
                           fail_at - split.calls - 1),
                     split, fail_at)
    ELSE IF Len(split.chunks) = 0
    \* total_tokens / len(processed_chunks)
    THEN OnException(document_id, "ZeroDivisionError", <<>>, split, split.calls)
    ELSE [status |-> "ok", message |-> "",
          chunks |-> Built(document_id, split.chunks, metadata, Len(split.chunks)),
          split |-> split, calls |-> split.calls + Len(split.chunks)]

\* chunk_document with a Token Counter whose fail_at-th call raises (0: no
\* call raises): the list it returns or the ChunkingError it raises.  split
\* records what _split_with_overlap did on the way, calls the number of
\* Token Counter calls made.
ChunkDocumentRun(cfg, document_id, content, metadata, fail_at) ==
    IF IsBlank(content) THEN Failure("Cannot chunk empty content", NoSplit, 0)
    ELSE IF MissingId(document_id)
    THEN Failure("Document ID is required", NoSplit, 0)
    ELSE CHOOSE r \in
           {Assemble(document_id, metadata, fail_at, split) :
              split \in {SplitWithOverlap(content, cfg.separators,
                                          cfg.target_tokens, cfg.overlap_tokens)}} :
           TRUE

\* chunk_document with a Token Counter that does not fail
ChunkDocumentResult(cfg, document_id, content, metadata) ==
    ChunkDocumentRun(cfg, document_id, content, metadata, 0)

(***************************************************************************)
(* Inputs.                                                                 *)
(***************************************************************************)
RECURSIVE TextsOfLen(_)
TextsOfLen(n) ==
    IF n = 0 THEN {<<>>}
    ELSE {Append(t, c) : t \in TextsOfLen(n - 1), c \in Alphabet}

Texts == UNION {TextsOfLen(n) : n \in 0..MaxLen}

DocumentIds == {"", "doc-1"}

NoMetadata == [k \in {} |-> 0]

\* caller metadata: none, a key of its own, and reserved keys
Metadatas ==
    {NoMetadata,
     [source |-> "notes"],
     [chunk_number |-> 7, source |-> "notes"],
     [total_chunks |-> 9, token_count |-> 0]}

\* the default list, two lists without the empty separator, and a list that
\* puts lines before paragraphs
SeparatorLists ==
    {DefaultSeparators, << <<"\n", "\n">> >>, << <<"\n">> >>,
     << <<"\n">>, <<"\n", "\n">> >>}

TokenArgs == (0 - 1)..MaxTokens

(***************************************************************************)
(* The state machine: one SmartChunker; a caller that builds configs and   *)
(* chunkers, calls chunk_document and takes the result.                    *)
(***************************************************************************)
NoCall == [document_id |-> "", content |-> <<>>, metadata |-> NoMetadata,
           fail_at |-> 0]

NoResult == [status |-> "none", message |-> "", chunks |-> <<>>,
             split |-> NoSplit, calls |-> 0]

\* No construction has failed.
NoConfigError == [target_tokens |-> 0, max_tokens |-> 0, overlap_tokens |-> 0,
                  message |-> ""]

\* The callers that share the chunker when calls run concurrently.
Callers == {1, 2}

\* A caller that is not inside chunk_document.
NoFrame ==
    [pc |-> "idle", document_id |-> "", content |-> <<>>, metadata |-> NoMetadata,
     status |-> "none", message |-> "", chunks |-> <<>>, interleaved |-> FALSE]

\* The local variables of one chunk_document call and of its
\* _split_with_overlap call, as they are when the call starts.
NoLocals ==
    [k |-> 1, splits |-> <<>>, i |-> 1, p |-> PackInit, chunks |-> <<>>,
     processed_chunks |-> <<>>, tokens |-> <<>>, start |-> 0, windows |-> <<>>]

\* the tool calls that can be in progress at once
ToolRuns == {1, 2}

\* No tool call is in progress.
NoTool ==
    [pc |-> "idle", mode |-> "none", document_id |-> "", text |-> <<>>,
     chunks |-> <<>>, next |-> 1, embedded_chunks |-> <<>>, log |-> <<>>,
     messages |-> <<>>, outcome |-> "none", error |-> "", failed_in |-> "none"]

\* No mapping has been allocated.
NoHeap ==
    [cells |-> <<>>, base |-> 0, given |-> NoMetadata, refs |-> <<>>,
     made |-> <<>>, touched |-> 0, status |-> "none",
     config_before |-> DefaultConfig]

\* SmartChunker(): the default config
Init ==
    /\ config = DefaultConfig
    /\ config_error = NoConfigError
    /\ pc = "ready"
    /\ call = NoCall
    /\ result = NoResult
    /\ frames = [c \in Callers |-> NoFrame]
    /\ locals = [c \in Callers |-> NoLocals]
    /\ tool = [c \in ToolRuns |-> NoTool]
    /\ heap = NoHeap

\* SmartChunker(ChunkingConfig(...)): a failed construction raises, with the
\* arguments it was given, and leaves the chunker in use as it was
Construct(target_tokens, max_tokens, overlap_tokens, separators) ==
    /\ pc = "ready"
    /\ LET err == ConfigError(target_tokens, max_tokens, overlap_tokens)
       IN  IF err = ""
           THEN /\ config' = ChunkingConfig(target_tokens, max_tokens,
                                            overlap_tokens, separators)
                /\ UNCHANGED <<config_error, pc>>
           ELSE /\ config_error' = [target_tokens |-> target_tokens,
                                    max_tokens |-> max_tokens,
                                    overlap_tokens |-> overlap_tokens,
                                    message |-> err]
                /\ pc' = "raised"
                /\ UNCHANGED config
    /\ UNCHANGED <<call, result, frames, locals, tool, heap>>

\* chunker.chunk_document(document_id, content, metadata)
ChunkDocument(document_id, content, metadata) ==
    /\ pc = "ready"
    /\ call' = [document_id |-> document_id, content |-> content,
                metadata |-> metadata, fail_at |-> 0]
    /\ result' = ChunkDocumentResult(config, document_id, content, metadata)
    /\ pc' = "returned"
    /\ UNCHANGED <<config, config_error, frames, locals, tool, heap>>

\* the caller has taken the result or the error; the chunker is idle again
Return ==
    /\ pc \in {"returned", "raised"}
    /\ pc' = "ready"
    /\ call' = NoCall
    /\ result' = NoResult
    /\ config_error' = NoConfigError
    /\ UNCHANGED <<config, frames, locals, tool, heap>>

Next ==
    \/ \E t \in TokenArgs, m \in TokenArgs, o \in TokenArgs, s \in SeparatorLists :
          Construct(t, m, o, s)
    \/ \E d \in DocumentIds, c \in Texts, md \in Metadatas : ChunkDocument(d, c, md)
    \/ Return

Spec == Init /\ [][Next]_vars

(***************************************************************************)
(* The same chunker with a Token Counter that can fail: the caller's call  *)
(* meets a counter whose fail_at-th call raises.                           *)
(***************************************************************************)
\* Longest content of a call with a failing Token Counter.
MaxFaultLen == 4
\* Latest Token Counter call that raises.
MaxFailAt == 6

FaultTexts == UNION {TextsOfLen(n) : n \in 0..MaxFaultLen}

ChunkDocumentFaulty(document_id, content, metadata, fail_at) ==
    /\ pc = "ready"
    /\ call' = [document_id |-> document_id, content |-> content,
                metadata |-> metadata, fail_at |-> fail_at]
    /\ result' = ChunkDocumentRun(config, document_id, content, metadata, fail_at)
    /\ pc' = "returned"
    /\ UNCHANGED <<config, config_error, frames, locals, tool, heap>>

NextFault ==
    \/ \E t \in TokenArgs, m \in TokenArgs, o \in TokenArgs, s \in SeparatorLists :
          Construct(t, m, o, s)
    \/ \E d \in DocumentIds, c \in FaultTexts, f \in 0..MaxFailAt :
          ChunkDocumentFaulty(d, c, NoMetadata, f)
    \/ Return

SpecFault == Init /\ [][NextFault]_vars


(***************************************************************************)
(* The same chunker with a caller that assigns to the fields of the config *)
(* the chunker holds.  ChunkingConfig is a pydantic model that does not    *)
(* set frozen or validate_assignment: an assignment stores the value and   *)
(* runs neither the field constraints nor validate_tokens.                 *)
(***************************************************************************)
TokenFields == {"target_tokens", "max_tokens", "overlap_tokens"}

\* chunker.config.<field> = value
SetAttr(field, value) ==
    /\ pc = "ready"
    /\ config' = [config EXCEPT ![field] = value]
    /\ UNCHANGED <<config_error, pc, call, result, frames, locals, tool, heap>>

NextAssign ==
    \/ \E t \in TokenArgs, m \in TokenArgs, o \in TokenArgs, s \in SeparatorLists :
          Construct(t, m, o, s)
    \/ \E f \in TokenFields, v \in TokenArgs : SetAttr(f, v)
    \/ \E d \in DocumentIds, c \in FaultTexts : ChunkDocument(d, c, NoMetadata)
    \/ Return

SpecAssign == Init /\ [][NextAssign]_vars

(***************************************************************************)
(* Concurrent callers of one chunker.  Each caller's chunk_document runs   *)
(* step by step (one step per loop iteration of the code) and the steps of *)
(* the callers interleave freely.  frames[c] is caller c's position, its   *)
(* arguments and, once it is done, what it got; locals holds the local     *)
(* variables of the calls.  The Token Counter is safe for concurrent use.  *)
(***************************************************************************)
\* Longest content of a concurrent call.
MaxConcLen == 4
\* Largest target_tokens of the shared chunker.
MaxConcTokens == 2

ConcTexts == UNION {TextsOfLen(n) : n \in 0..MaxConcLen}

\* Two lines, two paragraphs, a long word, three lines.
Documents ==
    { <<Digit, Newline, Digit>>,
      <<Digit, Newline, Newline, Digit>>,
      <<Digit, Digit, Digit, Digit>>,
      <<Digit, Newline, Digit, Newline, Digit>> }

\* What the callers chunk: the first any text, the others, meanwhile, one of
\* the documents.
ContentsOf(c) == IF c = 1 THEN ConcTexts ELSE Documents

ConcSeparatorLists ==
    {DefaultSeparators, << <<Newline>> >>, << <<Newline, Newline>> >>}

\* the configs the shared chunker can be constructed with: those that
\* ChunkingConfig(...) accepts
ConcConfigs ==
    {ChunkingConfig(a[1], a[1], a[2], s) :
        a \in {b \in (0..MaxConcTokens) \X (0..MaxConcTokens) :
                  ConfigError(b[1], b[1], b[2]) = ""},
        s \in ConcSeparatorLists}

\* processed_chunks and chunks as one storage of the instance
CallFrameShared(c) == 1

\* lines 157-164: chunks and processed_chunks are local variables of the
\* chunk_document call: caller c's call works on its own
CallFrame(c) == c

\* the splitter's working lists as one storage of the instance
SplitFrameShared(c) == 1

\* lines 214-228: splits, chunks, current_chunk, current_tokens are local
\* variables of the _split_with_overlap call: caller c's call works on its own
SplitFrame(c) == c

\* a step of caller c: the calls of the other callers that are in progress
\* have now run interleaved with it
Stepped(c, frame) ==
    [d \in Callers |->
        IF d = c THEN frame
        ELSE IF frames[d].pc \in {"idle", "done"} THEN frames[d]
        ELSE [frames[d] EXCEPT !.interleaved = TRUE]]

\* caller c's call ends with what r says
Done(c, r) ==
    Stepped(c, [frames[c] EXCEPT !.pc = "done", !.status = r.status,
                                 !.message = r.message, !.chunks = r.chunks])

\* lines 152-156: the two argument tests, then the try block is entered
Enter(c, document_id, content, metadata) ==
    /\ frames[c].pc = "idle"
    /\ LET frame == [NoFrame EXCEPT !.document_id = document_id,
                                    !.content = content,
                                    !.metadata = metadata]
       IN  IF IsBlank(content)
           THEN /\ frames' = Stepped(c, [frame EXCEPT
                                 !.pc = "done", !.status = "ChunkingError",
                                 !.message = "Cannot chunk empty content"])
                /\ UNCHANGED locals
           ELSE IF MissingId(document_id)
           THEN /\ frames' = Stepped(c, [frame EXCEPT
                                 !.pc = "done", !.status = "ChunkingError",
                                 !.message = "Document ID is required"])
                /\ UNCHANGED locals
           ELSE /\ frames' = Stepped(c, [frame EXCEPT !.pc = "split"])
                /\ locals' = [locals EXCEPT
                                 ![CallFrame(c)].chunks = <<>>,
                                 ![CallFrame(c)].processed_chunks = <<>>]
    /\ UNCHANGED <<config, config_error, pc, call, result, tool, heap>>

\* lines 157-164 and 209-212: _split_with_overlap is called; a text within
\* target_tokens is its own chunk, else the separator loop starts
EnterSplit(c) ==
    /\ frames[c].pc = "split"
    /\ IF CountTokens(frames[c].content) <= config.target_tokens
       THEN /\ locals' = [locals EXCEPT
                             ![CallFrame(c)].chunks = << frames[c].content >>]
            /\ frames' = Stepped(c, [frames[c] EXCEPT !.pc = "assemble"])
       ELSE /\ locals' = [locals EXCEPT ![SplitFrame(c)].k = 1]
            /\ frames' = Stepped(c, [frames[c] EXCEPT !.pc = "separator"])
    /\ UNCHANGED <<config, config_error, pc, call, result, tool, heap>>

\* lines 215-225: the next separator splits the text, or the loop goes on
TrySeparator(c) ==
    /\ frames[c].pc = "separator"
    /\ locals[SplitFrame(c)].k <= Len(config.separators)
    /\ LET separator == config.separators[locals[SplitFrame(c)].k]
       IN  IF separator = <<>>
           \* text.split("") raises ValueError
           THEN /\ frames' = Done(c, OnException(frames[c].document_id,
                                                 "ValueError", <<>>, NoSplit, 0))
                /\ UNCHANGED locals
           ELSE IF Len(Split(frames[c].content, separator)) = 1
           THEN /\ locals' = [locals EXCEPT ![SplitFrame(c)].k = @ + 1]
                /\ frames' = Stepped(c, frames[c])
           ELSE /\ locals' = [locals EXCEPT
                                 ![SplitFrame(c)].splits =
                                     Split(frames[c].content, separator),
                                 ![SplitFrame(c)].i = 1,
                                 ![SplitFrame(c)].p = PackInit]
                /\ frames' = Stepped(c, [frames[c] EXCEPT !.pc = "pack"])
    /\ UNCHANGED <<config, config_error, pc, call, result, tool, heap>>

\* lines 227-252: one iteration of the packing loop
PackNext(c) ==
    /\ frames[c].pc = "pack"
    /\ locals[SplitFrame(c)].k <= Len(config.separators)
    /\ locals[SplitFrame(c)].i <= Len(locals[SplitFrame(c)].splits)
    /\ LET l == locals[SplitFrame(c)]
       IN  locals' = [locals EXCEPT
                         ![SplitFrame(c)].p =
                             PackStep(l.p, l.splits[l.i], config.separators[l.k],
                                      config.target_tokens, config.overlap_tokens),
                         ![SplitFrame(c)].i = @ + 1]
    /\ frames' = Stepped(c, frames[c])
    /\ UNCHANGED <<config, config_error, pc, call, result, tool, heap>>

\* lines 254-260: the final chunk is added; a non-empty list is returned to
\* chunk_document, else the loop goes on with the next separator
Flush(c) ==
    /\ frames[c].pc = "pack"
    /\ locals[SplitFrame(c)].k <= Len(config.separators)
    /\ locals[SplitFrame(c)].i > Len(locals[SplitFrame(c)].splits)
    /\ LET l == locals[SplitFrame(c)]
           chunks == JoinAll(Packed(l.p), config.separators[l.k])
       IN  IF chunks # <<>>
           THEN /\ locals' = [locals EXCEPT ![CallFrame(c)].chunks = chunks]
                /\ frames' = Stepped(c, [frames[c] EXCEPT !.pc = "assemble"])
           ELSE /\ locals' = [locals EXCEPT ![SplitFrame(c)].k = @ + 1]
                /\ frames' = Stepped(c, [frames[c] EXCEPT !.pc = "separator"])
    /\ UNCHANGED <<config, config_error, pc, call, result, tool, heap>>

\* the window loop that does not move on
NextStartStuck(i, target_tokens, overlap_tokens) == i

\* line 276: the start of the next window
NextStart(i, target_tokens, overlap_tokens) == i + (target_tokens - overlap_tokens)

\* lines 262-263 and 273-276: no separator worked: _split_by_tokens encodes
\* the text and sets up the window loop
Fallback(c) ==
    /\ frames[c].pc = "separator"
    /\ locals[SplitFrame(c)].k > Len(config.separators)
    /\ IF RangeRaises(config.target_tokens, config.overlap_tokens)
       THEN /\ frames' = Done(c, OnException(frames[c].document_id,
                                             "ValueError", <<>>, NoSplit, 0))
            /\ UNCHANGED locals
       ELSE /\ locals' = [locals EXCEPT
                             ![SplitFrame(c)].tokens = Encode(frames[c].content),
                             ![SplitFrame(c)].start = 0,
                             ![SplitFrame(c)].windows = <<>>]
            /\ frames' = Stepped(c, [frames[c] EXCEPT !.pc = "windows"])
    /\ UNCHANGED <<config, config_error, pc, call, result, tool, heap>>

\* lines 276-279: one iteration of the window loop
NextWindow(c) ==
    /\ frames[c].pc = "windows"
    /\ config.target_tokens - config.overlap_tokens > 0
    /\ locals[SplitFrame(c)].start < Len(locals[SplitFrame(c)].tokens)
    /\ LET l == locals[SplitFrame(c)]
       IN  locals' = [locals EXCEPT
                         ![SplitFrame(c)].windows =
                             Append(@, Decode(TokenSlice(l.tokens, l.start,
                                                         config.target_tokens))),
                         ![SplitFrame(c)].start =
                             NextStart(@, config.target_tokens,
                                       config.overlap_tokens)]
    /\ frames' = Stepped(c, frames[c])
    /\ UNCHANGED <<config, config_error, pc, call, result, tool, heap>>

\* line 281: the range is exhausted: the windows are returned to
\* chunk_document
EndWindows(c) ==
    /\ frames[c].pc = "windows"
    /\ \/ config.target_tokens - config.overlap_tokens < 0
       \/ locals[SplitFrame(c)].start >= Len(locals[SplitFrame(c)].tokens)
    /\ locals' = [locals EXCEPT
                     ![CallFrame(c)].chunks = locals[SplitFrame(c)].windows]
    /\ frames' = Stepped(c, [frames[c] EXCEPT !.pc = "assemble"])
    /\ UNCHANGED <<config, config_error, pc, call, result, tool, heap>>

\* lines 166-175: one iteration of the create_chunk loop
CreateNext(c) ==
    /\ frames[c].pc = "assemble"
    /\ LET l == locals[CallFrame(c)]
           n == Len(l.processed_chunks)
       IN  /\ n < Len(l.chunks)
           /\ locals' = [locals EXCEPT
                            ![CallFrame(c)].processed_chunks =
                                Append(@, CreateChunk(frames[c].document_id,
                                                      l.chunks[n + 1], n + 1,
                                                      Len(l.chunks),
                                                      frames[c].metadata))]
    /\ frames' = Stepped(c, frames[c])
    /\ UNCHANGED <<config, config_error, pc, call, result, tool, heap>>

\* lines 177-185: the loop is over: the stats are logged and processed_chunks
\* is returned
Finish(c) ==
    /\ frames[c].pc = "assemble"
    /\ LET l == locals[CallFrame(c)]
       IN  /\ Len(l.processed_chunks) >= Len(l.chunks)
           /\ frames' =
                IF Len(l.processed_chunks) = 0
                \* total_tokens / len(processed_chunks)
                THEN Done(c, OnException(frames[c].document_id,
                                         "ZeroDivisionError", <<>>, NoSplit, 0))
                ELSE Done(c, [status |-> "ok", message |-> "",
                              chunks |-> l.processed_chunks])
    /\ UNCHANGED <<locals, config, config_error, pc, call, result, tool, heap>>

\* the caller has taken the list or the error: the frames of the call are gone
ReturnCall(c) ==
    /\ frames[c].pc = "done"
    /\ frames' = Stepped(c, NoFrame)
    /\ locals' = [locals EXCEPT ![c] = NoLocals]
    /\ UNCHANGED <<config, config_error, pc, call, result, tool, heap>>

\* the shared chunker has been constructed with a valid config
InitConc ==
    /\ config \in ConcConfigs
    /\ config_error = NoConfigError
    /\ pc = "ready"
    /\ call = NoCall
    /\ result = NoResult
    /\ frames = [c \in Callers |-> NoFrame]
    /\ locals = [c \in Callers |-> NoLocals]
    /\ tool = [c \in ToolRuns |-> NoTool]
    /\ heap = NoHeap

NextConc ==
    \/ \E c \in Callers, d \in DocumentIds :
          \E t \in ContentsOf(c) : Enter(c, d, t, NoMetadata)
    \/ \E c \in Callers : EnterSplit(c)
    \/ \E c \in Callers : TrySeparator(c)
    \/ \E c \in Callers : PackNext(c)
    \/ \E c \in Callers : Flush(c)
    \/ \E c \in Callers : Fallback(c)
    \/ \E c \in Callers : NextWindow(c)
    \/ \E c \in Callers : EndWindows(c)
    \/ \E c \in Callers : CreateNext(c)
    \/ \E c \in Callers : Finish(c)
    \/ \E c \in Callers : ReturnCall(c)

SpecConc == InitConc /\ [][NextConc]_vars

(***************************************************************************)
(* One caller whose call, once entered, keeps running: the interpreter     *)
(* executes the next statement of a call that has one.                     *)
(***************************************************************************)
\* the next step of caller c's call in progress
Step(c) ==
    \/ EnterSplit(c)
    \/ TrySeparator(c)
    \/ PackNext(c)
    \/ Flush(c)
    \/ Fallback(c)
    \/ NextWindow(c)
    \/ EndWindows(c)
    \/ CreateNext(c)
    \/ Finish(c)

NextLive ==
    \/ \E d \in DocumentIds, t \in ConcTexts : Enter(1, d, t, NoMetadata)
    \/ EnterSplit(1)
    \/ TrySeparator(1)
    \/ PackNext(1)
    \/ Flush(1)
    \/ Fallback(1)
    \/ NextWindow(1)
    \/ EndWindows(1)
    \/ CreateNext(1)
    \/ Finish(1)
    \/ ReturnCall(1)

SpecLive == InitConc /\ [][NextLive]_vars /\ WF_vars(Step(1))

(***************************************************************************)
(* Properties.                                                             *)
(***************************************************************************)
Returned == pc = "returned"

ReturnedOk == pc = "returned" /\ result.status = "ok"

ValidConfig(c) ==
    /\ 0 <= c.overlap_tokens
    /\ c.overlap_tokens < c.target_tokens
    /\ c.target_tokens <= c.max_tokens
    /\ c.target_tokens > 0

\* C1: every ChunkingConfig call with overlap_tokens >= target_tokens or
\* max_tokens < target_tokens raises, and the config a chunker holds always
\* satisfies 0 <= overlap_tokens < target_tokens <= max_tokens, target_tokens > 0.
C1_ConfigValidated ==
    /\ ValidConfig(config)
    /\ \A t \in TokenArgs, m \in TokenArgs, o \in TokenArgs :
          (o >= t \/ m < t) => ConfigError(t, m, o) # ""

\* a chunker built from a caller's config, and then a construction with
\* positive fields and overlap_tokens >= target_tokens that raised
C1_Witness ==
    /\ pc = "raised"
    /\ config # DefaultConfig
    /\ config_error.target_tokens > 0
    /\ config_error.max_tokens >= config_error.target_tokens
    /\ config_error.overlap_tokens >= config_error.target_tokens
    /\ config_error.message # ""

\* C2: non-blank content of at most target_tokens tokens with a non-empty
\* document_id gives one chunk, made without trying a separator, holding the
\* trimmed text, with chunk_number = 1 and total_chunks = 1 in its metadata.
C2_BaseCaseOneChunk ==
    ( /\ Returned
      /\ ~IsBlank(call.content)
      /\ call.document_id # ""
      /\ CountTokens(call.content) <= config.target_tokens )
    => /\ result.status = "ok"
       /\ Len(result.chunks) = 1
       /\ result.split.path = "base"
       /\ result.split.tried = 0
       /\ result.chunks[1].content = Strip(call.content)
       /\ result.chunks[1].metadata.chunk_number = 1
       /\ result.chunks[1].metadata.total_chunks = 1

\* C3: in a returned sequence of n chunks the chunk_number values are 1..n in
\* order and every total_chunks is n, whatever the caller's metadata holds.
C3_ChunkNumbersContiguous ==
    ReturnedOk =>
        \A i \in 1..Len(result.chunks) :
            /\ result.chunks[i].metadata.chunk_number = i
            /\ result.chunks[i].metadata.total_chunks = Len(result.chunks)

\* C4: the token_count of a chunk's metadata is the token count of the
\* chunk's content field, the trimmed text.  Stated for callers whose metadata
\* has no token_count key, so that the count compared is the chunker's own.
C4_TokenCountOfContent ==
    (ReturnedOk /\ "token_count" \notin DOMAIN call.metadata) =>
        \A i \in 1..Len(result.chunks) :
            result.chunks[i].metadata.token_count
                = CountTokens(result.chunks[i].content)

ReservedKeys ==
    {"document_id", "chunk_number", "total_chunks", "token_count", "char_count"}

\* the value chunk_document computes for a reserved key of its i-th chunk
ComputedValue(k, i) ==
    CASE k = "document_id" -> call.document_id
      [] k = "chunk_number" -> i
      [] k = "total_chunks" -> Len(result.chunks)
      [] k = "token_count" -> CountTokens(result.split.chunks[i])
      [] k = "char_count" -> Len(result.split.chunks[i])

\* C5: a reserved key in the caller's metadata does not replace the value the
\* chunker computes for it, and every other caller key is merged in unchanged.
C5_ReservedKeysWin ==
    ReturnedOk =>
        \A i \in 1..Len(result.chunks) :
            \A k \in DOMAIN call.metadata :
                /\ k \in DOMAIN result.chunks[i].metadata
                /\ result.chunks[i].metadata[k]
                     = IF k \in ReservedKeys THEN ComputedValue(k, i)
                       ELSE call.metadata[k]

\* C6: the i-th chunk's id is document_id + "#chunk" + i; the ids of one
\* sequence are pairwise distinct and agree with the chunk_number metadata.
C6_ChunkIds ==
    ReturnedOk =>
        /\ \A i \in 1..Len(result.chunks) :
              /\ result.chunks[i].id
                   = call.document_id \o "#chunk" \o ToString(i)
              /\ result.chunks[i].id
                   = call.document_id \o "#chunk"
                       \o ToString(result.chunks[i].metadata.chunk_number)
        /\ \A i \in 1..Len(result.chunks), j \in 1..Len(result.chunks) :
              i # j => result.chunks[i].id # result.chunks[j].id

\* no non-empty separator of the list occurs in the text
NoSeparatorOccurs(text, separators) ==
    \A k \in 1..Len(separators) :
        separators[k] # <<>> => Len(Split(text, separators[k])) = 1

\* C7: under the default separators, a text of more than target_tokens tokens
\* in which no non-empty separator occurs is chunked successfully, into the
\* windows of the token-boundary splitter.
C7_FallbackUnderDefaults ==
    ( /\ Returned
      /\ config.separators = DefaultSeparators
      /\ ~IsBlank(call.content)
      /\ call.document_id # ""
      /\ CountTokens(call.content) > config.target_tokens
      /\ NoSeparatorOccurs(call.content, config.separators) )
    => /\ result.status = "ok"
       /\ result.split.path = "fallback"
       /\ result.split.chunks
            = SplitByTokens(call.content, config.target_tokens,
                            config.overlap_tokens)

\* C8: on the separator path every returned string has at most target_tokens
\* tokens, counted on the joined string, unless it is a single piece that
\* alone exceeds target_tokens.
C8_ChunksWithinTarget ==
    (Returned /\ result.split.status = "ok" /\ result.split.path = "separator") =>
        \A j \in 1..Len(result.split.chunks) :
            \/ CountTokens(result.split.chunks[j]) <= config.target_tokens
            \/ /\ Len(result.split.parts[j].pieces) = 1
               /\ CountTokens(result.split.parts[j].pieces[1]) > config.target_tokens

\* the pieces of a chunk that were not seeded from the chunk before it
NovelPieces(part) == SubSeq(part.pieces, part.seeded + 1, Len(part.pieces))

\* the seeded pieces of a chunk
SeededPieces(part) == SubSeq(part.pieces, 1, part.seeded)

RECURSIVE AllNovel(_)
AllNovel(parts) ==
    IF parts = <<>> THEN <<>>
    ELSE NovelPieces(Head(parts)) \o AllNovel(Tail(parts))

\* C9: for a text of more than target_tokens tokens the chunks leave no gap.
\* Separator path: the novel pieces of the chunks, in order, are the pieces of
\* the split, and joined by the separator they are the text.  Fallback path:
\* every token offset lies in a window, and a window holds the tokens at its
\* offsets.
C9_NoGaps ==
    (Returned /\ result.split.status = "ok") =>
        /\ result.split.path = "separator" =>
              /\ result.split.splits = Split(call.content, result.split.separator)
              /\ AllNovel(result.split.parts) = result.split.splits
              /\ Join(AllNovel(result.split.parts), result.split.separator)
                   = call.content
              /\ \A j \in 1..Len(result.split.parts) :
                    result.split.chunks[j]
                      = Join(result.split.parts[j].pieces, result.split.separator)
        /\ result.split.path = "fallback" =>
              LET tokens == Encode(call.content)
                  windows == result.split.windows
              IN  /\ \A x \in 0..(Len(tokens) - 1) :
                        \E k \in 1..Len(windows) :
                            /\ windows[k].start <= x
                            /\ x < windows[k].start + Len(windows[k].tokens)
                  /\ \A k \in 1..Len(windows) :
                        /\ windows[k].tokens
                             = SubSeq(tokens, windows[k].start + 1,
                                      windows[k].start + Len(windows[k].tokens))
                        /\ result.split.chunks[k] = Decode(windows[k].tokens)

\* a split into three or more pieces packed into two or more chunks
C9_Witness ==
    /\ ReturnedOk
    /\ result.split.path = "separator"
    /\ Len(result.split.splits) >= 3
    /\ Len(result.split.chunks) >= 2
    /\ \E j \in 1..Len(result.split.parts) : Len(result.split.parts[j].pieces) >= 2

IsSuffix(s, t) ==
    Len(s) <= Len(t) /\ SubSeq(t, Len(t) - Len(s) + 1, Len(t)) = s

TwoOversizedPieces ==
    /\ Returned
    /\ result.split.status = "ok"
    /\ result.split.path = "separator"
    /\ Len(result.split.splits) = 2
    /\ CountTokens(result.split.splits[1]) > config.target_tokens
    /\ CountTokens(result.split.splits[2]) > config.target_tokens

\* C10: a text that the chosen separator splits into exactly two pieces, each
\* of more than target_tokens tokens, gives exactly two chunks, and what the
\* second chunk repeats from the tail of the first has at most overlap_tokens
\* tokens.
C10_TwoParagraphs ==
    TwoOversizedPieces =>
        /\ Len(result.split.chunks) = 2
        /\ result.split.chunks[1] = result.split.splits[1]
        /\ IsSuffix(SeededPieces(result.split.parts[2]),
                    result.split.parts[1].pieces)
        /\ CountTokens(Join(SeededPieces(result.split.parts[2]),
                            result.split.separator))
             <= config.overlap_tokens
        /\ NovelPieces(result.split.parts[2]) = <<result.split.splits[2]>>

\* two paragraphs separated by a blank line, each over the target
C10_Witness ==
    /\ TwoOversizedPieces
    /\ result.status = "ok"
    /\ result.split.separator = <<"\n", "\n">>
    /\ Len(result.chunks) = 2

\* C11: on the separator path the separator used is the first of the
\* configured list that splits the text into more than one piece; the
\* separators before it were evaluated and gave one piece, none after it was
\* evaluated, and every chunk is a join, by that separator, of consecutive
\* pieces of its split.
C11_FirstUsableSeparator ==
    (Returned /\ result.split.status = "ok" /\ result.split.path = "separator") =>
        LET k == result.split.tried
            seps == config.separators
        IN  /\ k \in 1..Len(seps)
            /\ result.split.separator = seps[k]
            /\ \A j \in 1..(k - 1) :
                  seps[j] # <<>> /\ Len(Split(call.content, seps[j])) = 1
            /\ Len(Split(call.content, seps[k])) > 1
            /\ result.split.splits = Split(call.content, seps[k])
            /\ \A c \in 1..Len(result.split.chunks) :
                  /\ result.split.chunks[c]
                       = Join(result.split.parts[c].pieces, seps[k])
                  /\ \E a \in 1..Len(result.split.splits) :
                        result.split.parts[c].pieces
                          = SubSeq(result.split.splits, a,
                                   a + Len(result.split.parts[c].pieces) - 1)

\* paragraphs are used although the next separator, the line break, would
\* split the text too
C11_Witness ==
    /\ ReturnedOk
    /\ result.split.path = "separator"
    /\ result.split.tried = 1
    /\ Len(config.separators) >= 2
    /\ config.separators[2] # <<>>
    /\ Len(Split(call.content, config.separators[2]))
         > Len(result.split.splits)
    /\ Len(result.chunks) >= 2

\* empty, or nothing but whitespace
Blank(content) == \A i \in 1..Len(content) : content[i] \in Whitespace

\* C12: blank content fails with the empty-content error before any work: no
\* separator is tried, the Token Counter is not called, no chunk is made.
C12_EmptyContentRejected ==
    (Returned /\ Blank(call.content)) =>
        /\ result.status = "ChunkingError"
        /\ result.message = "Cannot chunk empty content"
        /\ result.split = NoSplit
        /\ result.split.tried = 0
        /\ result.calls = 0
        /\ result.chunks = <<>>

\* whitespace-only content with a document id
C12_Witness ==
    /\ Returned
    /\ call.content # <<>>
    /\ Blank(call.content)
    /\ call.document_id # ""
    /\ result.status = "ChunkingError"

\* C13: non-blank content with an empty document_id fails with the
\* missing-identifier error before splitting: the splitter and the Token
\* Counter are not invoked, no chunk is made.
C13_MissingIdRejected ==
    (Returned /\ ~Blank(call.content) /\ call.document_id = "") =>
        /\ result.status = "ChunkingError"
        /\ result.message = "Document ID is required"
        /\ result.split = NoSplit
        /\ result.calls = 0
        /\ result.chunks = <<>>

\* a text that would need splitting, without a document id
C13_Witness ==
    /\ Returned
    /\ ~Blank(call.content)
    /\ call.document_id = ""
    /\ CountTokens(call.content) > config.target_tokens
    /\ result.status = "ChunkingError"

\* the Token Counter call of this call that raised, if one did
FaultFired ==
    call.fail_at \in 1..ChunkDocumentResult(config, call.document_id,
                                            call.content, call.metadata).calls

\* C14: chunk_document is all-or-nothing: a call in which a step fails gives
\* the caller an error and no chunk, also when pieces or Chunk objects had
\* been built; a call that returns a list returns a chunk for every string of
\* the splitter.
C14_AllOrNothing ==
    Returned =>
        /\ result.status \in {"ok", "ChunkingError"}
        /\ result.status # "ok" => result.chunks = <<>>
        /\ FaultFired => result.status # "ok"
        /\ result.status = "ok" =>
              /\ Len(result.chunks) >= 1
              /\ Len(result.chunks) = Len(result.split.chunks)

\* the Token Counter raises in the second create_chunk: one Chunk was built
C14_Witness ==
    /\ Returned
    /\ result.split.status = "ok"
    /\ Len(result.split.chunks) >= 2
    /\ call.fail_at = result.split.calls + 2
    /\ result.status = "ChunkingError"
    /\ result.chunks = <<>>

\* the failure of a call that got past the two argument tests
CauseOf(r) ==
    IF r.split.status # "ok" THEN r.split.status
    ELSE IF Len(r.split.chunks) = 0 THEN "ZeroDivisionError"
    ELSE TokenCounterError

\* C15: a failure raised while splitting or assembling reaches the caller as
\* a ChunkingError whose message holds the document id and the cause; nothing
\* else comes out of chunk_document.
C15_FailuresWrapped ==
    Returned =>
        /\ result.status \in {"ok", "ChunkingError"}
        /\ (result.status # "ok" /\ result.split.status # "none") =>
              result.message
                = "Error chunking document " \o call.document_id \o ": "
                    \o CauseOf(result)
        /\ (FaultFired \/ result.split.status = "ValueError") =>
              result.status = "ChunkingError"

\* the Token Counter raises inside the packing pass
C15_Witness ==
    /\ Returned
    /\ result.status = "ChunkingError"
    /\ result.split.status = TokenCounterError
    /\ result.split.path = "separator"
    /\ call.fail_at >= 3

\* C17: no returned chunk has more than max_tokens tokens.
C17_ChunksWithinMax ==
    ReturnedOk =>
        \A i \in 1..Len(result.chunks) :
            CountTokens(result.chunks[i].content) <= config.max_tokens

\* C19: on the separator path a chunk that follows a closed chunk starts with
\* the longest trailing run of the closed chunk's pieces whose token counts
\* add up to at most overlap_tokens, before the piece that closed it.
C19_OverlapSeeded ==
    (Returned /\ result.split.status = "ok" /\ result.split.path = "separator") =>
        \A j \in 1..(Len(result.split.parts) - 1) :
            LET closed == result.split.parts[j].pieces
                next == result.split.parts[j + 1]
            IN  /\ SeededPieces(next)
                     = OverlapWalk(closed, Len(closed), config.overlap_tokens, <<>>)
                /\ Len(NovelPieces(next)) >= 1
                /\ CountTokens(closed[Len(closed)]) <= config.overlap_tokens
                      => next.pieces[1] = closed[Len(closed)]

CeilDiv(n, d) == (n + d - 1) \div d

\* C20: on n tokens the fallback splitter gives, in order, the windows
\* tokens[k*s : min(k*s + target_tokens, n)] for the k >= 0 with k*s < n,
\* s = target_tokens - overlap_tokens: ceil(n/s) windows of at most
\* target_tokens tokens, two consecutive full windows sharing overlap_tokens
\* tokens.
C20_FallbackWindows ==
    (Returned /\ result.split.status = "ok" /\ result.split.path = "fallback") =>
        LET tokens == Encode(call.content)
            n == Len(tokens)
            t == config.target_tokens
            s == config.target_tokens - config.overlap_tokens
            w == result.split.windows
        IN  /\ Len(w) = CeilDiv(n, s)
            /\ Len(result.split.chunks) = Len(w)
            /\ \A k \in 0..(Len(w) - 1) :
                  /\ k * s < n
                  /\ w[k + 1].start = k * s
                  /\ w[k + 1].tokens = SubSeq(tokens, k * s + 1, Min(k * s + t, n))
                  /\ Len(w[k + 1].tokens) <= t
                  /\ Len(w[k + 1].tokens) >= 1
                  /\ result.split.chunks[k + 1] = Decode(w[k + 1].tokens)
            /\ \A k \in 1..(Len(w) - 1) :
                  (Len(w[k].tokens) = t /\ Len(w[k + 1].tokens) = t) =>
                      /\ w[k].start + t - w[k + 1].start = config.overlap_tokens
                      /\ SubSeq(w[k].tokens, s + 1, t)
                           = SubSeq(w[k + 1].tokens, 1, config.overlap_tokens)

\* three or more windows that overlap, two of them full
C20_Witness ==
    /\ ReturnedOk
    /\ result.split.path = "fallback"
    /\ config.overlap_tokens >= 1
    /\ Len(result.split.windows) >= 3
    /\ Len(result.split.windows[1].tokens) = config.target_tokens
    /\ Len(result.split.windows[2].tokens) = config.target_tokens

\* what a caller gets from a call
Outcome(r) == [status |-> r.status, message |-> r.message, chunks |-> r.chunks]

SameArguments(f, g) ==
    /\ f.document_id = g.document_id
    /\ f.content = g.content
    /\ f.metadata = g.metadata

\* C16: two chunk_document calls with the same document_id, content and
\* metadata on chunkers of the same config end alike: both return lists of
\* the same length with pairwise equal ids, contents and metadata, or both
\* raise the same error; whatever the order or interleaving of the two runs.
C16_SameCallSameChunks ==
    \A c \in Callers, d \in Callers :
        (frames[c].pc = "done" /\ frames[d].pc = "done"
            /\ SameArguments(frames[c], frames[d])) =>
        /\ frames[c].status = frames[d].status
        /\ frames[c].message = frames[d].message
        /\ Len(frames[c].chunks) = Len(frames[d].chunks)
        /\ \A i \in 1..Len(frames[c].chunks) :
              /\ frames[c].chunks[i].id = frames[d].chunks[i].id
              /\ frames[c].chunks[i].content = frames[d].chunks[i].content
              /\ frames[c].chunks[i].metadata = frames[d].chunks[i].metadata

\* the same document chunked twice, into two or more chunks
C16_Witness ==
    /\ frames[1].pc = "done"
    /\ frames[2].pc = "done"
    /\ SameArguments(frames[1], frames[2])
    /\ frames[1].status = "ok"
    /\ Len(frames[1].chunks) >= 2
    /\ Len(frames[2].chunks) >= 2

\* C18: a chunk_document call that ran on the shared chunker while other
\* calls ran on it, in any interleaving of their steps, ends exactly as the
\* same call ends when it runs alone.
C18_ConcurrentAsAlone ==
    \A c \in Callers :
        frames[c].pc = "done" =>
            Outcome(frames[c])
              = Outcome(ChunkDocumentResult(config, frames[c].document_id,
                                            frames[c].content,
                                            frames[c].metadata))

\* two calls on different documents have run interleaved and both have
\* returned two or more chunks
C18_Witness ==
    /\ frames[1].pc = "done"
    /\ frames[2].pc = "done"
    /\ frames[1].interleaved
    /\ frames[2].interleaved
    /\ frames[1].content # frames[2].content
    /\ frames[1].status = "ok"
    /\ frames[2].status = "ok"
    /\ Len(frames[1].chunks) >= 2
    /\ Len(frames[2].chunks) >= 2

OnFallback ==
    Returned /\ result.split.status = "ok" /\ result.split.path = "fallback"

OnSeparator ==
    Returned /\ result.split.status = "ok" /\ result.split.path = "separator"

\* C21: when the fallback splitter runs with overlap_tokens >= 1 (it runs on
\* more than target_tokens tokens), its last window has fewer than
\* target_tokens tokens, at most target_tokens - overlap_tokens, and no
\* window and no string it returns is empty.
C21_LastWindowShort ==
    (OnFallback /\ config.overlap_tokens >= 1) =>
        LET w == result.split.windows
            last == w[Len(w)]
        IN  /\ Len(Encode(call.content)) > config.target_tokens
            /\ Len(w) >= 2
            /\ Len(last.tokens) < config.target_tokens
            /\ Len(last.tokens) <= config.target_tokens - config.overlap_tokens
            /\ last.start + Len(last.tokens) = Len(Encode(call.content))
            /\ \A k \in 1..Len(w) :
                  Len(w[k].tokens) >= 1 /\ result.split.chunks[k] # <<>>

\* the stride divides the token count: the last window is as long as it
\* can be
C21_Witness ==
    /\ OnFallback
    /\ config.overlap_tokens >= 1
    /\ Len(result.split.windows) >= 3
    /\ Len(result.split.windows[Len(result.split.windows)].tokens)
         = config.target_tokens - config.overlap_tokens

\* the split pieces of more than target_tokens tokens
Oversized(piece) == CountTokens(piece) > config.target_tokens

\* C23: a piece of the chosen split that has more than target_tokens tokens
\* is not split again: it is, whole, the only novel piece of its chunk and
\* the end of that chunk's string, and the splitter evaluated no separator
\* after the chosen one.
C23_OversizedPieceVerbatim ==
    OnSeparator =>
        /\ result.split.separator = config.separators[result.split.tried]
        /\ AllNovel(result.split.parts) = result.split.splits
        /\ \A j \in 1..Len(result.split.parts) :
              LET novel == NovelPieces(result.split.parts[j])
              IN  (\E m \in 1..Len(novel) : Oversized(novel[m])) =>
                      /\ Len(novel) = 1
                      /\ IsSuffix(novel[1], result.split.chunks[j])
                      /\ result.split.parts[j].seeded = 0
                            => result.split.chunks[j] = novel[1]

\* an oversized piece followed by a piece that fits: two chunks
C23_Witness ==
    /\ OnSeparator
    /\ Len(result.split.splits) = 2
    /\ Oversized(result.split.splits[1])
    /\ ~Oversized(result.split.splits[2])
    /\ result.split.splits[2] # <<>>
    /\ result.split.chunks = result.split.splits

RECURSIVE SumTokens(_)
SumTokens(pieces) ==
    IF pieces = <<>> THEN 0
    ELSE CountTokens(Head(pieces)) + SumTokens(Tail(pieces))

\* the running total of the code when the first n novel pieces of a chunk
\* are in it: the count of the joined seed plus the counts of the pieces
RunningTotal(part, n) ==
    CountTokens(Join(SeededPieces(part), result.split.separator))
      + SumTokens(SubSeq(NovelPieces(part), 1, n))

\* C24: the packing pass closes the current chunk exactly when it is not
\* empty and the running total plus the next piece's count exceeds
\* target_tokens: no chunk has zero pieces, the first piece opens the first
\* chunk, a piece joins a non-empty chunk only when the total stays within
\* the target, and each chunk but the last is followed by a piece that would
\* have taken it over the target.
C24_ClosesExactlyWhenOver ==
    OnSeparator =>
        LET parts == result.split.parts
        IN  /\ Len(parts) >= 1
            /\ \A j \in 1..Len(parts) : Len(NovelPieces(parts[j])) >= 1
            /\ parts[1].pieces[1] = result.split.splits[1]
            /\ \A j \in 1..Len(parts) :
                  \A n \in 1..(Len(NovelPieces(parts[j])) - 1) :
                      RunningTotal(parts[j], n)
                        + CountTokens(NovelPieces(parts[j])[n + 1])
                          <= config.target_tokens
            /\ \A j \in 1..(Len(parts) - 1) :
                  RunningTotal(parts[j], Len(NovelPieces(parts[j])))
                    + CountTokens(NovelPieces(parts[j + 1])[1])
                      > config.target_tokens

\* a chunk of two pieces that fills the target exactly, closed by a third
C24_Witness ==
    /\ OnSeparator
    /\ Len(result.split.parts) >= 2
    /\ Len(result.split.parts[1].pieces) >= 2
    /\ RunningTotal(result.split.parts[1], Len(result.split.parts[1].pieces))
         = config.target_tokens
    /\ config.target_tokens >= 2

\* C26: a chunk_document call that returns a list returns one chunk or
\* more, and no call fails on the division by the number of chunks.
C26_AtLeastOneChunk ==
    Returned =>
        /\ result.status = "ok" => Len(result.chunks) >= 1
        /\ result.split.status = "ok" => Len(result.split.chunks) >= 1
        /\ result.message
             # "Error chunking document " \o call.document_id
                 \o ": ZeroDivisionError"

\* one chunk from each way out of the splitter is reached: here the
\* fallback with its shortest input
C26_Witness ==
    /\ ReturnedOk
    /\ result.split.path = "fallback"
    /\ Len(Encode(call.content)) = config.target_tokens + 1
    /\ config.overlap_tokens = 0
    /\ Len(result.chunks) = 2

\* C25: the config a chunker holds satisfies overlap_tokens < target_tokens
\* <= max_tokens at all times, whatever is assigned to its fields, and every
\* split runs under such a config.
C25_ConfigStaysValid ==
    /\ ValidConfig(config)
    /\ Returned => ValidConfig(config)

Running(c) == frames[c].pc \notin {"idle", "done"}

\* C22: under a validated config the window loop of the fallback splitter
\* advances by target_tokens - overlap_tokens >= 1 tokens per window, so it
\* makes no more windows than there are tokens and ends; and every
\* chunk_document call that was entered ends, with a chunk list or with a
\* ChunkingError.
C22_Terminates ==
    /\ [](/\ ValidConfig(config)
          /\ config.target_tokens - config.overlap_tokens >= 1
          /\ Len(locals[1].windows) <= Len(locals[1].tokens)
          /\ locals[1].start
               = Len(locals[1].windows)
                   * (config.target_tokens - config.overlap_tokens)
          /\ frames[1].pc = "done" => frames[1].status \in {"ok", "ChunkingError"})
    /\ (Running(1) ~> frames[1].pc = "done")

\* a call that went through the window loop three times or more has ended
C22_Witness ==
    /\ frames[1].pc = "done"
    /\ frames[1].status = "ok"
    /\ Len(locals[1].windows) >= 3
    /\ Len(frames[1].chunks) = Len(locals[1].windows)

(***************************************************************************)
(* tools.py: embed_document, process_document; server_sse.py:              *)
(* process_document_stream.  The embedding service and the index are       *)
(* outside the program: a call to either succeeds or raises, and log is    *)
(* the list of the calls made to the chunker and to the Pinecone client.   *)
(***************************************************************************)
\* an embed_document that embeds every chunk it is given
SkippedNever(chunk) == FALSE

\* if not content or not chunk_id: continue
Skipped(chunk) == chunk.content = <<>> \/ chunk.id = ""

\* what generate_embeddings returns for a text: a vector that depends on it
Embedding(content) == <<"embedding", content>>

PineconeRecord(chunk) ==
    [id |-> chunk.id, embedding |-> Embedding(chunk.content),
     text |-> chunk.content, metadata |-> chunk.metadata]

RECURSIVE EmbeddedChunks(_)
EmbeddedChunks(chunks) ==
    IF chunks = <<>> THEN <<>>
    ELSE IF Skipped(Head(chunks)) THEN EmbeddedChunks(Tail(chunks))
    ELSE <<PineconeRecord(Head(chunks))>> \o EmbeddedChunks(Tail(chunks))

\* embed_document with an embedding service that does not fail
EmbedDocument(chunks) ==
    [embedded_chunks |-> EmbeddedChunks(chunks),
     total_embedded |-> Len(EmbeddedChunks(chunks))]

\* one call made to the chunker or to the Pinecone client: ids are the ids
\* of the chunks or records it was given
Called(op, ids) == [op |-> op, ids |-> ids]

\* one TextContent, by the message it carries
Message(kind, document_id, n, error) ==
    [kind |-> kind, document_id |-> document_id, n |-> n, error |-> error]

\* a paragraph of one token more than the default target
Paragraph ==
    [i \in 1..(DefaultTargetTokens + 1) |-> IF i % 2 = 1 THEN Digit ELSE Newline]

ParagraphBreak == <<Newline, Newline>>

\* the "text" argument of the tool: missing text, a short line, and
\* documents of more than one chunk under the default config
ToolTexts ==
    {<<>>, <<Digit>>,
     Paragraph \o ParagraphBreak \o <<Digit>>,
     ParagraphBreak \o Paragraph,
     ParagraphBreak \o Paragraph \o ParagraphBreak \o <<Digit>>}

\* the documents of each tool call: the second call, which runs while the
\* first is suspended, brings a short line
ToolTextsOf(c) == IF c = 1 THEN ToolTexts ELSE {<<Digit>>}

\* the generator yields message and is suspended there
Yield(t, message) ==
    [t EXCEPT !.pc = "suspended", !.messages = Append(@, message)]

\* a generator that lets the exception through instead of reporting it
FailEscaping(t, step, error) ==
    [t EXCEPT !.pc = "done", !.outcome = "raised", !.error = error,
              !.failed_in = step]

\* an exception raised in step: process_document has no handler and the
\* exception reaches its caller; process_document_stream catches it (line
\* 464) and yields the failure message
Fail(t, step, error) ==
    IF t.mode = "call"
    THEN [t EXCEPT !.pc = "done", !.outcome = "raised", !.error = error,
                   !.failed_in = step]
    ELSE Yield([t EXCEPT !.error = error, !.failed_in = step],
               Message("failed", "", 0, error))

\* arguments.get(...) of lines 191-194 and 389-393: arguments is None or a
\* dict with document_id and text
ReadArguments(t, has_arguments, document_id, text) ==
    IF has_arguments
    THEN [t EXCEPT !.pc = "chunking", !.document_id = document_id,
                   !.text = text]
    ELSE Fail(t, "arguments", "AttributeError")

\* process_document(arguments, pinecone_client) is called
ProcessDocument(c, has_arguments, document_id, text) ==
    /\ tool[c].pc = "idle"
    /\ tool' = [tool EXCEPT ![c] =
                  ReadArguments([NoTool EXCEPT !.mode = "call"],
                                has_arguments, document_id, text)]
    /\ UNCHANGED <<config, config_error, pc, call, result, frames, locals, heap>>

\* the first __anext__ of process_document_stream(arguments,
\* pinecone_client): with stream false it goes on into process_document
\* inside its try block, otherwise it runs to the yield of the start message
ProcessDocumentStream(c, has_arguments, document_id, text, stream) ==
    /\ tool[c].pc = "idle"
    /\ LET t == ReadArguments(
                    [NoTool EXCEPT !.mode = IF stream THEN "stream" ELSE "fallback"],
                    has_arguments, document_id, text)
       IN  tool' = [tool EXCEPT ![c] =
                      IF has_arguments /\ stream
                      THEN Yield(t, Message("start", document_id, 0, ""))
                      ELSE t]
    /\ UNCHANGED <<config, config_error, pc, call, result, frames, locals, heap>>

\* the last message the generator yielded
LastKind(t) == t.messages[Len(t.messages)].kind

\* the messages that are followed by await asyncio.sleep(0.1)
BeforeSleep ==
    {"start", "chunking", "chunks_created", "embedding",
     "embeddings_generated", "uploading", "uploaded"}

\* the consumer asks for the next message: the generator goes on from the
\* yield it is suspended at, through the sleep, to the next yield, to the
\* step call that stands before it, or to its end
Resume(c) ==
    /\ tool[c].pc = "suspended"
    /\ LET t == tool[c]
           k == LastKind(t)
       IN  tool' = [tool EXCEPT ![c] =
             IF k = "start" THEN Yield(t, Message("chunking", "", 0, ""))
             ELSE IF k = "chunking" THEN [t EXCEPT !.pc = "chunking"]
             ELSE IF k = "chunks_created"
             THEN Yield(t, Message("embedding", "", 0, ""))
             ELSE IF k = "embedding" THEN [t EXCEPT !.pc = "embedding"]
             ELSE IF k = "embeddings_generated"
             THEN Yield(t, Message("uploading", "", 0, ""))
             ELSE IF k = "uploading" THEN [t EXCEPT !.pc = "upserting"]
             ELSE IF k = "uploaded"
             THEN Yield(t, Message("completed", t.document_id, 0, ""))
             ELSE [t EXCEPT !.pc = "done", !.outcome = "finished"]]
    /\ UNCHANGED <<config, config_error, pc, call, result, frames, locals, heap>>

\* the consumer closes the generator at the yield it is suspended at:
\* nothing after the yield runs
Close(c) ==
    /\ tool[c].pc = "suspended"
    /\ tool' = [tool EXCEPT ![c].pc = "done", ![c].outcome = "closed"]
    /\ UNCHANGED <<config, config_error, pc, call, result, frames, locals, heap>>

\* the consumer's task is cancelled while the generator sleeps:
\* CancelledError is not an Exception, line 464 does not catch it and it
\* leaves the generator
Cancel(c) ==
    /\ tool[c].pc = "suspended"
    /\ tool[c].mode = "stream"
    /\ LastKind(tool[c]) \in BeforeSleep
    /\ tool' = [tool EXCEPT ![c].pc = "done", ![c].outcome = "raised",
                            ![c].error = "CancelledError",
                            ![c].failed_in = "cancelled"]
    /\ UNCHANGED <<config, config_error, pc, call, result, frames, locals, heap>>

\* create_chunker(chunk_type="smart").chunk_document(document_id, text,
\* metadata); the generator then yields the number of chunks
Chunking(c) ==
    /\ tool[c].pc = "chunking"
    /\ LET r == CHOOSE x \in
                  {ChunkDocumentResult(DefaultConfig, tool[c].document_id, q,
                                       NoMetadata) : q \in {tool[c].text}} : TRUE
           t == [tool[c] EXCEPT !.log = Append(@, Called("chunk_document", <<>>))]
           u == [t EXCEPT !.pc = "embedding", !.chunks = r.chunks, !.next = 1]
       IN  tool' = [tool EXCEPT ![c] =
                      IF r.status # "ok" THEN Fail(t, "chunking", r.message)
                      ELSE IF t.mode = "stream"
                      THEN Yield(u, Message("chunks_created", "", Len(r.chunks), ""))
                      ELSE u]
    /\ UNCHANGED <<config, config_error, pc, call, result, frames, locals, heap>>

\* one iteration of the loop of embed_document: a chunk without content or
\* id is skipped, for any other generate_embeddings is called and returns
\* (ok) or raises
EmbedChunk(c, ok) ==
    /\ tool[c].pc = "embedding"
    /\ tool[c].next <= Len(tool[c].chunks)
    /\ LET chunk == tool[c].chunks[tool[c].next]
           t == [tool[c] EXCEPT !.log = Append(@, Called("generate_embeddings",
                                                         <<chunk.id>>))]
       IN  tool' = [tool EXCEPT ![c] =
                      IF Skipped(chunk) THEN [tool[c] EXCEPT !.next = @ + 1]
                      ELSE IF ok
                      THEN [t EXCEPT !.next = @ + 1,
                                     !.embedded_chunks =
                                         Append(@, PineconeRecord(chunk))]
                      ELSE Fail(t, "embedding", "ValueError")]
    /\ UNCHANGED <<config, config_error, pc, call, result, frames, locals, heap>>

\* embed_document returns; the generator yields the number of records
EmbedReturn(c) ==
    /\ tool[c].pc = "embedding"
    /\ tool[c].next > Len(tool[c].chunks)
    /\ tool' = [tool EXCEPT ![c] =
                  IF tool[c].mode = "stream"
                  THEN Yield(tool[c], Message("embeddings_generated", "",
                                              Len(tool[c].embedded_chunks), ""))
                  ELSE [tool[c] EXCEPT !.pc = "upserting"]]
    /\ UNCHANGED <<config, config_error, pc, call, result, frames, locals, heap>>

\* pinecone.py 155-167, the loop of upsert_records: a record without
\* vector values is passed over, every other gets its text put into its
\* metadata under the key "text"
RECURSIVE WithText(_)
WithText(records) ==
    IF records = <<>> THEN <<>>
    ELSE LET record == Head(records)
         IN  <<IF record.embedding = <<>> THEN record
               ELSE [record EXCEPT !.metadata = ("text" :> record.text) @@ @]>>
             \o WithText(Tail(records))

\* upsert_documents(embedded_chunks, ...): upsert_records prepares the
\* vectors, then index.upsert returns (ok) or raises; then the success
\* content of process_document or the uploaded message of the generator
UpsertDocuments(c, ok) ==
    /\ tool[c].pc = "upserting"
    /\ LET records == tool[c].embedded_chunks
           ids == [i \in 1..Len(records) |-> records[i].id]
           t == [tool[c] EXCEPT !.log = Append(@, Called("upsert_records", ids)),
                                !.embedded_chunks = WithText(records)]
           success == Message("success", t.document_id, 0, "")
       IN  tool' = [tool EXCEPT ![c] =
             IF ~ok THEN Fail(t, "upsert", "Exception")
             ELSE IF t.mode = "stream"
             THEN Yield(t, Message("uploaded", "", 0, ""))
             ELSE IF t.mode = "fallback" THEN Yield(t, success)
             ELSE [t EXCEPT !.pc = "done", !.outcome = "returned",
                            !.messages = <<success>>]]
    /\ UNCHANGED <<config, config_error, pc, call, result, frames, locals, heap>>

\* the caller has the result, the exception or the end of the messages
ToolReturn(c) ==
    /\ tool[c].pc = "done"
    /\ tool' = [tool EXCEPT ![c] = NoTool]
    /\ UNCHANGED <<config, config_error, pc, call, result, frames, locals, heap>>

NextTool ==
    \E c \in ToolRuns :
        \/ \E a \in BOOLEAN, d \in DocumentIds, t \in ToolTextsOf(c) :
              ProcessDocument(c, a, d, t)
        \/ \E a \in BOOLEAN, d \in DocumentIds, t \in ToolTextsOf(c),
              st \in BOOLEAN : ProcessDocumentStream(c, a, d, t, st)
        \/ Resume(c)
        \/ Close(c)
        \/ Cancel(c)
        \/ Chunking(c)
        \/ \E ok \in BOOLEAN : EmbedChunk(c, ok)
        \/ EmbedReturn(c)
        \/ \E ok \in BOOLEAN : UpsertDocuments(c, ok)
        \/ ToolReturn(c)

SpecTool == Init /\ [][NextTool]_vars

(***************************************************************************)
(* Who owns which mapping.  heap.cells are the dict objects, an address is *)
(* an index into it: the caller's metadata dict is at heap.base, the       *)
(* metadata dict of the i-th returned chunk at heap.refs[i].  given and    *)
(* made keep what the caller passed and what each chunk was created with.  *)
(***************************************************************************)
\* a create_chunk that fills in and hands on the dict it was given
MetadataRefShared(base, allocated) == base

\* lines 128-136: a dict display makes a new object, at the next free
\* address
MetadataRef(base, allocated) == allocated + 1

\* the object at address ref becomes mapping
Store(cells, ref, mapping) ==
    IF ref <= Len(cells) THEN [cells EXCEPT ![ref] = mapping]
    ELSE Append(cells, mapping)

\* the loop of lines 166-175 from chunk i on: each create_chunk stores the
\* metadata of its chunk
RECURSIVE CreateAll(_, _, _)
CreateAll(h, chunks, i) ==
    IF i > Len(chunks) THEN h
    ELSE LET ref == MetadataRef(h.base, Len(h.cells))
         IN  CreateAll([h EXCEPT !.cells = Store(@, ref, chunks[i].metadata),
                                 !.refs = Append(@, ref),
                                 !.made = Append(@, chunks[i].metadata)],
                       chunks, i + 1)

\* chunker.chunk_document(document_id, content, metadata) with metadata a
\* dict of the caller
ChunkDocumentOwned(document_id, content, metadata) ==
    /\ pc = "ready"
    /\ heap.status = "none"
    /\ LET r == CHOOSE x \in
                  {ChunkDocumentResult(config, document_id, q, metadata) :
                     q \in {content}} : TRUE
           h == [NoHeap EXCEPT !.cells = <<metadata>>, !.base = 1,
                               !.given = metadata, !.status = r.status,
                               !.config_before = config]
       IN  heap' = CreateAll(h, r.chunks, 1)
    /\ UNCHANGED <<config, config_error, pc, call, result, frames, locals, tool>>

\* what the owner of a chunk may do to its metadata
MetadataWrites ==
    {<<"source", "edited">>, <<"chunk_number", 0>>, <<"embedded", "yes">>}

\* chunks[i].metadata[key] = value, by whoever holds chunk i
SetKey(i, key, value) ==
    /\ heap.status = "ok"
    /\ heap.touched = 0
    /\ i \in 1..Len(heap.refs)
    /\ heap' = [heap EXCEPT !.touched = i,
                            !.cells[heap.refs[i]] = (key :> value) @@ @]
    /\ UNCHANGED <<config, config_error, pc, call, result, frames, locals, tool>>

\* the caller drops the chunks and its dict
Discard ==
    /\ heap.status # "none"
    /\ heap' = NoHeap
    /\ UNCHANGED <<config, config_error, pc, call, result, frames, locals, tool>>

\* the caller builds another chunker between calls, when it holds no chunks
NextOwned ==
    \/ /\ heap.status = "none"
       /\ \E t \in TokenArgs, m \in TokenArgs, o \in TokenArgs, s \in SeparatorLists :
             Construct(t, m, o, s)
    \/ Return
    \/ \E d \in DocumentIds, c \in FaultTexts, md \in Metadatas :
          ChunkDocumentOwned(d, c, md)
    \/ \E i \in 1..MaxFaultLen, w \in MetadataWrites : SetKey(i, w[1], w[2])
    \/ Discard

SpecOwned == Init /\ [][NextOwned]_vars

\* C28: chunk_document leaves the caller's metadata dict and the chunker's
\* config with its separator list as they were, whether it returns or
\* raises, and every returned chunk has a metadata dict of its own: a key
\* set in one chunk's metadata shows neither in another chunk's metadata
\* nor in the caller's dict.
C28_MetadataOwned ==
    heap.status # "none" =>
        /\ heap.cells[heap.base] = heap.given
        /\ config = heap.config_before
        /\ heap.status # "ok" => heap.refs = <<>>
        /\ \A i \in 1..Len(heap.refs) :
              /\ heap.refs[i] # heap.base
              /\ \A j \in 1..Len(heap.refs) :
                    i # j => heap.refs[i] # heap.refs[j]
              /\ i # heap.touched => heap.cells[heap.refs[i]] = heap.made[i]

\* the first of two chunks made from a caller's dict with a source key had
\* its source changed
C28_Witness ==
    /\ heap.status = "ok"
    /\ Len(heap.refs) >= 2
    /\ heap.touched = 1
    /\ "source" \in DOMAIN heap.given
    /\ heap.cells[heap.refs[1]]["source"] = "edited"
    /\ heap.cells[heap.refs[2]]["source"] = "notes"
    /\ heap.given["source"] = "notes"

\* C27: every Chunk of a list that chunk_document returns has non-empty
\* content, so embed_document skips none and total_embedded is the number
\* of chunks returned.
C27_NoChunkSkipped ==
    ReturnedOk =>
        /\ \A i \in 1..Len(result.chunks) : result.chunks[i].content # <<>>
        /\ EmbedDocument(result.chunks).total_embedded = Len(result.chunks)

\* the calls of one kind that run c made, in the order they were made
CallsOf(c, op) == SelectSeq(tool[c].log, LAMBDA e : e.op = op)

\* C29: process_document calls the chunker once and first, then embeds
\* every chunk of the list in chunk order, then upserts once and last; a
\* failure of the chunking or of an embedding leaves the index untouched,
\* raises to the caller and returns no success message.
C29_ChunkEmbedUpsertOrder ==
    \A c \in ToolRuns :
      tool[c].mode = "call" =>
        /\ tool[c].log # <<>> => tool[c].log[1].op = "chunk_document"
        /\ Len(CallsOf(c, "chunk_document")) <= 1
        /\ Len(CallsOf(c, "upsert_records")) <= 1
        /\ \A i \in 1..Len(CallsOf(c, "generate_embeddings")) :
              CallsOf(c, "generate_embeddings")[i].ids = <<tool[c].chunks[i].id>>
        /\ CallsOf(c, "upsert_records") # <<>> =>
              /\ tool[c].log[Len(tool[c].log)].op = "upsert_records"
              /\ Len(CallsOf(c, "generate_embeddings")) = Len(tool[c].chunks)
        /\ tool[c].failed_in \in {"arguments", "chunking", "embedding"} =>
              /\ CallsOf(c, "upsert_records") = <<>>
              /\ tool[c].outcome = "raised"
              /\ tool[c].messages = <<>>
        /\ tool[c].outcome = "returned" => Len(CallsOf(c, "upsert_records")) = 1

\* the messages of a streaming run that does not fail, by kind
ProgressOrder ==
    <<"start", "chunking", "chunks_created", "embedding",
      "embeddings_generated", "uploading", "uploaded", "completed">>

Kinds(c) == [i \in 1..Len(tool[c].messages) |-> tool[c].messages[i].kind]

IsPrefix(s, t) == Len(s) <= Len(t) /\ s = SubSeq(t, 1, Len(s))

\* a step call of run c raised
StepFailed(c) == tool[c].failed_in \in {"arguments", "chunking", "embedding", "upsert"}

\* C30: in streaming mode the messages come one by one in the order start,
\* chunking, chunks created, embedding, embeddings generated, uploading,
\* uploaded, completed; a failing step adds exactly one failure message,
\* which is the last, with neither uploaded nor completed before or after
\* it; no upsert is issued after a failed chunking or embedding, and the
\* failure of a step never leaves the generator as an exception (only the
\* cancellation of the consumer does).
C30_StreamOrder ==
    \A c \in ToolRuns :
      tool[c].mode = "stream" =>
        /\ tool[c].outcome = "raised" => tool[c].failed_in = "cancelled"
        /\ IF ~StepFailed(c)
           THEN /\ IsPrefix(Kinds(c), ProgressOrder)
                /\ tool[c].outcome = "finished" => Kinds(c) = ProgressOrder
           ELSE /\ tool[c].pc \in {"suspended", "done"}
                /\ tool[c].outcome \in {"none", "finished", "closed"}
                /\ Kinds(c)[Len(Kinds(c))] = "failed"
                /\ IsPrefix(SubSeq(Kinds(c), 1, Len(Kinds(c)) - 1), ProgressOrder)
                /\ \A i \in 1..Len(Kinds(c)) :
                      Kinds(c)[i] \notin {"uploaded", "completed"}
                /\ \A i \in 1..(Len(Kinds(c)) - 1) : Kinds(c)[i] # "failed"
        /\ tool[c].failed_in \in {"arguments", "chunking", "embedding"} =>
              CallsOf(c, "upsert_records") = <<>>
        /\ \A i \in 1..Len(Kinds(c)) :
              /\ Kinds(c)[i] = "chunks_created" =>
                    CallsOf(c, "chunk_document") # <<>>
              /\ Kinds(c)[i] = "uploaded" =>
                    /\ CallsOf(c, "upsert_records") # <<>>
                    /\ Len(CallsOf(c, "generate_embeddings"))
                         = Len(tool[c].embedded_chunks)

\* the embedding of the second chunk failed: five messages, the failure
\* last, two embedding calls and no upsert, and the generator has ended
C30_Witness ==
    /\ tool[1].mode = "stream"
    /\ tool[1].pc = "done"
    /\ tool[1].outcome = "finished"
    /\ tool[1].failed_in = "embedding"
    /\ Kinds(1) = <<"start", "chunking", "chunks_created", "embedding", "failed">>
    /\ Len(CallsOf(1, "generate_embeddings")) = 2
    /\ CallsOf(1, "upsert_records") = <<>>

====
